---------------------------- MODULE Spec2Model ----------------------------
(***************************************************************************)
(* A state-machine model of Civ7ModManager (src/src/main.py): the mod      *)
(* registry self.mods, the conflict recompute, deployment into the game's  *)
(* mod directory and the profile store.                                    *)
(*                                                                         *)
(* ModInfo (modinfo.py), ModTreeItem (ui_components.py) and ArchiveHandler *)
(* (archive.py) are imported by main.py but are not part of src/; what the *)
(* model needs of them is taken from spec.md and is marked where it is     *)
(* used.  Every checkbox of the tree is kept equal to the enabled flag of  *)
(* its mod (ModTreeItem shows mod.enabled, and every handler that changes  *)
(* one changes the other), so the model keeps the flag only.               *)
(***************************************************************************)
EXTENDS Integers, Sequences, FiniteSets, TLC

VARIABLES
    catalog,        \* folder name -> manifest number: what the mod folder of that name contains
    defaultEnabled, \* the enabled value ModInfo gives a newly discovered mod
    storage,        \* the directories present in storage_path
    mods,           \* self.mods: folder_name -> [enabled, conflicts]
    modKeys,        \* the insertion order of self.mods (a dict keeps it)
    gameDirExists,  \* game_mods_path.exists()
    gameDir,        \* the entries of game_mods_path: name -> [kind, gen]
    profiles,       \* the files of profiles_path: name -> JSON object
    savedMap,       \* history: the enabled mapping each stored profile was written from
    pc,             \* "idle", or "confirm" while deploy_mods waits in its confirmation dialog
    last            \* the last step: the handler, what it reported, and on what

vars == <<catalog, defaultEnabled, storage, mods, modKeys, gameDirExists,
          gameDir, profiles, savedMap, pc, last>>

(***************************************************************************)
(* Bounds and the data the model draws its inputs from.                    *)
(***************************************************************************)
NumMods == 3

MaxArchives == 2

\* Folder names, in no particular order; two of them have upper-case letters.
AllFolders == <<"mod_a", "Mod_b", "mod_c", "Mod_d", "mod_e">>

Folders == {AllFolders[i] : i \in 1..NumMods}

\* str.lower() on the folder names.
Lower(s) ==
    CASE s = "Mod_b" -> "mod_b"
      [] s = "Mod_d" -> "mod_d"
      [] OTHER -> s

\* The lower-cased folder names in ascending string order.
LowerAscending == <<"mod_a", "mod_b", "mod_c", "mod_d", "mod_e">>

\* The folder names in ascending order of their code points: upper case
\* comes first.
CodePointAscending == <<"Mod_b", "Mod_d", "mod_a", "mod_c", "mod_e">>

\* A sort by the name as it is.
SortKeyCaseSensitive(f) ==
    CHOOSE i \in 1..Len(CodePointAscending) : CodePointAscending[i] = f

\* The sort key of refresh_mod_list, as the position of the lower-cased name.
SortKey(f) == CHOOSE i \in 1..Len(LowerAscending) : LowerAscending[i] = Lower(f)

\* The manifests a mod folder may hold: display_name and affected_files.
\* 1 and 2 are the scenario of spec.md section 8; 3 and 4 carry the display
\* name of 1 (a mod unpacked under several folder names, in variants).
Manifests ==
    <<[display_name |-> "Alpha", affected_files |-> {"a.xml", "shared.xml"}],
      [display_name |-> "Beta",  affected_files |-> {"shared.xml"}],
      [display_name |-> "Alpha", affected_files |-> {"a.xml"}],
      [display_name |-> "Alpha", affected_files |-> {"shared.xml"}]>>

ManifestIds == 1..Len(Manifests)

\* The catalog number of a folder whose manifest ModInfo cannot read.
Unreadable == Len(Manifests) + 1

Files == UNION {Manifests[i].affected_files : i \in ManifestIds}

DisplayNames == {Manifests[i].display_name : i \in ManifestIds}

\* In ascending string order: "a.xml" < "shared.xml".
FilesAscending == <<"a.xml", "shared.xml">>

FileRank(x) == CHOOSE i \in 1..Len(FilesAscending) : FilesAscending[i] = x

\* min() of a non-empty set of paths.
Smallest(S) == CHOOSE x \in S : \A y \in S : FileRank(x) <= FileRank(y)

ProfileNames == {"main"}

\* A file in the game's mod directory that no deploy put there.
StrayFile == "readme.txt"

EmptyMap == [x \in {} |-> x]

Metadata(f) == Manifests[catalog[f]]

AffectedFiles(f) == Metadata(f).affected_files

DisplayName(f) == Metadata(f).display_name

(***************************************************************************)
(* ModInfo(mod_item): the record of a newly discovered mod.                *)
(***************************************************************************)
ModInfo(f) == [enabled |-> defaultEnabled, conflicts |-> EmptyMap]

\* ModTreeItem(mod_info) of line 355: the row of the list for a record.  The
\* model keeps the row's "Has Conflicts" text with the record; a new row
\* shows "No" (spec.md 4.4: a new record has no conflicts).
ModTreeItem(mod_info) == mod_info @@ [indicator |-> "No"]

NoInfo == [op |-> "init", result |-> "ok", target |-> "-",
           copied |-> <<>>, failed |-> "-"]

Report(op, result, target) ==
    [op |-> op, result |-> result, target |-> target, copied |-> <<>>, failed |-> "-"]

(***************************************************************************)
(* _update_conflicts, lines 210-223.                                       *)
(***************************************************************************)
EnabledKeys(ms, keys) == SelectSeq(keys, LAMBDA k : ms[k].enabled)

CommonFiles(m, o) == AffectedFiles(m) \cap AffectedFiles(o)

Position(keys, f) == CHOOSE i \in 1..Len(keys) : keys[i] = f

\* Line 223 for the pair (m, o) is overwritten later in the same loop: a later
\* entry of enabled_mods has o's display name and shares a file with m.
Overwritten(ms, keys, m, o) ==
    \E o2 \in DOMAIN ms :
        /\ o2 # m /\ ms[o2].enabled
        /\ DisplayName(o2) = DisplayName(o)
        /\ CommonFiles(m, o2) # {}
        /\ Position(keys, o2) > Position(keys, o)

\* The pairs whose common_files set has more than one element and whose
\* entry stays: the loop of lines 222-223 leaves the element the set's
\* iteration yields last, and the iteration order of a set of strings is not
\* fixed.
ChoicePairs(ms, keys) ==
    {p \in (DOMAIN ms) \X (DOMAIN ms) :
        /\ p[1] # p[2]
        /\ ms[p[1]].enabled /\ ms[p[2]].enabled
        /\ Cardinality(CommonFiles(p[1], p[2])) > 1
        /\ ~Overwritten(ms, keys, p[1], p[2])}

Picks(ms, keys) ==
    LET pairs == ChoicePairs(ms, keys)
    IN  {pick \in [pairs -> Files] :
            \A p \in pairs : pick[p] \in CommonFiles(p[1], p[2])}

LastIterated(m, o, pick) ==
    IF <<m, o>> \in DOMAIN pick
        THEN pick[<<m, o>>]
        ELSE CHOOSE x \in CommonFiles(m, o) : TRUE

RECURSIVE ConflictsLoop(_, _, _, _, _)
\* The inner loop of lines 219-223 from position i of enabled_mods on.
ConflictsLoop(m, enabledKeys, i, acc, pick) ==
    IF i > Len(enabledKeys) THEN acc
    ELSE LET o == enabledKeys[i]
             next == IF o # m /\ CommonFiles(m, o) # {}
                        THEN (DisplayName(o) :> LastIterated(m, o, pick)) @@ acc
                        ELSE acc
         IN  ConflictsLoop(m, enabledKeys, i + 1, next, pick)

\* Lines 213-223: the conflicts of every mod, rebuilt.
RecomputedConflicts(ms, keys, pick) ==
    [m \in DOMAIN ms |->
        [ms[m] EXCEPT !.conflicts =
            IF ms[m].enabled
                THEN ConflictsLoop(m, EnabledKeys(ms, keys), 1, EmptyMap, pick)
                ELSE EmptyMap]]

\* Line 226: findItems(display_name, MatchExactly, 0)[0], the first row of
\* the list that shows the display name of mod m.
FoundItem(ms, keys, m) ==
    CHOOSE r \in DOMAIN ms :
        /\ DisplayName(r) = DisplayName(m)
        /\ \A o \in DOMAIN ms :
              DisplayName(o) = DisplayName(m) => Position(keys, r) <= Position(keys, o)

\* The mod the loop of line 225 handles last among those whose row lookup
\* yields row r.
LastWriter(ms, keys, r) ==
    CHOOSE m \in DOMAIN ms :
        /\ DisplayName(m) = DisplayName(r)
        /\ \A o \in DOMAIN ms :
              DisplayName(o) = DisplayName(r) => Position(keys, o) <= Position(keys, m)

\* Lines 227-232.
IndicatorText(mod) == IF mod.enabled /\ mod.conflicts # EmptyMap THEN "Yes" ELSE "No"

\* Lines 225-232: each mod writes the row its lookup yields; a row no lookup
\* yields keeps its text.
UpdateIndicators(ms, keys) ==
    [r \in DOMAIN ms |->
        [ms[r] EXCEPT !.indicator =
            IF FoundItem(ms, keys, r) = r
                THEN IndicatorText(ms[LastWriter(ms, keys, r)])
                ELSE @]]

\* A recompute that rebuilds the conflicts of the mods whose flag differs
\* from the registry's, and leaves the others as they are.
UpdateConflictsChangedOnly(ms, keys, pick) ==
    [m \in DOMAIN ms |->
        IF ms[m].enabled = mods[m].enabled THEN ms[m]
        ELSE [ms[m] EXCEPT !.conflicts =
                IF ms[m].enabled
                    THEN ConflictsLoop(m, EnabledKeys(ms, keys), 1, EmptyMap, pick)
                    ELSE EmptyMap]]

UpdateConflicts(ms, keys, pick) ==
    CHOOSE r \in {UpdateIndicators(recomputed, keys) :
                    recomputed \in {RecomputedConflicts(ms, keys, pick)}} : TRUE

(***************************************************************************)
(* _on_mod_toggle, lines 192-208.                                          *)
(***************************************************************************)
OnModToggle(ms, keys, f, is_enabled, pick) ==
    IF f \notin DOMAIN ms THEN ms
    ELSE UpdateConflicts([ms EXCEPT ![f].enabled = is_enabled], keys, pick)

\* The user clicks the checkbox of mod f.
ToggleMod(f) ==
    /\ pc = "idle"
    /\ f \in DOMAIN mods
    /\ \E pick \in Picks([mods EXCEPT ![f].enabled = ~mods[f].enabled], modKeys) :
          mods' = OnModToggle(mods, modKeys, f, ~mods[f].enabled, pick)
    /\ last' = Report("toggle", "ok", f)
    /\ UNCHANGED <<catalog, defaultEnabled, storage, modKeys, gameDirExists,
                   gameDir, profiles, savedMap, pc>>

\* The handler runs for a folder name self.mods does not hold: line 203
\* returns, and nothing is logged or shown.
ToggleModUnknown(f, is_enabled) ==
    /\ pc = "idle"
    /\ f \notin DOMAIN mods
    /\ mods' = OnModToggle(mods, modKeys, f, is_enabled, EmptyMap)
    /\ last' = Report("toggle", "silent", f)
    /\ UNCHANGED <<catalog, defaultEnabled, storage, modKeys, gameDirExists,
                   gameDir, profiles, savedMap, pc>>

(***************************************************************************)
(* enable_all_mods and disable_all_mods, lines 291-317.  setCheckState on  *)
(* an item whose state changes emits itemChanged, which runs               *)
(* _on_mod_toggle before the loop goes on.                                 *)
(***************************************************************************)
RECURSIVE SetAllLoop(_, _, _, _, _)
\* (The singleton binder makes TLC evaluate the toggled registry once.)
SetAllLoop(ms, keys, i, value, pick) ==
    IF i > Len(keys) THEN ms
    ELSE LET f == keys[i]
         IN  CHOOSE r \in
                {SetAllLoop([toggled EXCEPT ![f].enabled = value], keys, i + 1, value, pick) :
                    toggled \in {IF ms[f].enabled # value
                                    THEN OnModToggle(ms, keys, f, value, pick)
                                    ELSE ms}} : TRUE

\* Enable-all and disable-all without the recompute of their last line.
SetAllModsByCallbacksOnly(ms, keys, value, pick) == SetAllLoop(ms, keys, 1, value, pick)

SetAllMods(ms, keys, value, pick) ==
    UpdateConflicts(SetAllLoop(ms, keys, 1, value, pick), keys, pick)

EnableAllMods ==
    /\ pc = "idle"
    /\ \E pick \in Picks([m \in DOMAIN mods |-> [mods[m] EXCEPT !.enabled = TRUE]], modKeys) :
          mods' = SetAllMods(mods, modKeys, TRUE, pick)
    /\ last' = Report("enable_all", "ok", "-")
    /\ UNCHANGED <<catalog, defaultEnabled, storage, modKeys, gameDirExists,
                   gameDir, profiles, savedMap, pc>>

DisableAllMods ==
    /\ pc = "idle"
    /\ mods' = SetAllMods(mods, modKeys, FALSE, EmptyMap)
    /\ last' = Report("disable_all", "ok", "-")
    /\ UNCHANGED <<catalog, defaultEnabled, storage, modKeys, gameDirExists,
                   gameDir, profiles, savedMap, pc>>

(***************************************************************************)
(* refresh_mod_list, lines 319-372.                                        *)
(***************************************************************************)
RECURSIVE SortedDirs(_)
\* mod_dirs after the sort of line 348.
SortedDirs(S) ==
    IF S = {} THEN <<>>
    ELSE LET first == CHOOSE x \in S : \A y \in S : SortKey(x) <= SortKey(y)
         IN  <<first>> \o SortedDirs(S \ {first})

\* ModInfo(mod_item) of line 352 returns; it raises for a folder whose
\* manifest cannot be read (spec.md 4.3), and line 361 catches that.
ManifestParses(f) == catalog[f] # Unreadable

\* The folders lines 350-357 list, in the order of the loop.
ScannedKeys(dirs) == SelectSeq(SortedDirs(dirs), ManifestParses)

\* A scan that ends at the first folder whose manifest cannot be read.
ScannedModsUntilFailure(dirs) ==
    [f \in {d \in dirs : \A e \in dirs : SortKey(e) <= SortKey(d) => ManifestParses(e)}
        |-> ModTreeItem(ModInfo(f))]

\* The records lines 350-353 put into self.mods, and their rows (lines
\* 355-357).
ScannedMods(dirs) ==
    [f \in {d \in dirs : ManifestParses(d)} |-> ModTreeItem(ModInfo(f))]

\* A rescan that keeps the rows of the list.
KeepsKeys(keys) == keys

\* Line 323: self.mod_tree.clear().
ClearedKeys(keys) == <<>>

\* A rescan that keeps the records it has.
KeepsMods(ms) == ms

\* Line 324: self.mods.clear().
ClearedMods(ms) == EmptyMap

\* self.mods and the list after lines 323-362.
RefreshedMods(ms, dirs) == ScannedMods(dirs) @@ ClearedMods(ms)

RefreshedKeys(keys, dirs) == ClearedKeys(keys) \o ScannedKeys(dirs)

RefreshModList ==
    /\ pc = "idle"
    /\ mods' = RefreshedMods(mods, storage)
    /\ modKeys' = RefreshedKeys(modKeys, storage)
    /\ last' = Report("refresh", "ok", "-")
    /\ UNCHANGED <<catalog, defaultEnabled, storage, gameDirExists, gameDir,
                   profiles, savedMap, pc>>

(***************************************************************************)
(* install_mod, lines 374-442.  ArchiveHandler.extract_mod_folder unpacks  *)
(* the archive's mod folder f into storage; it raises for a corrupt        *)
(* archive and for a folder name storage already holds, and then leaves    *)
(* nothing behind (spec.md 4.1).                                           *)
(***************************************************************************)
ExtractFailsIn(store, f, corrupt) == corrupt \/ f \in store

ExtractFails(f, corrupt) == ExtractFailsIn(storage, f, corrupt)

InstallMod(f, corrupt) ==
    /\ pc = "idle"
    /\ IF ExtractFails(f, corrupt)
          THEN /\ last' = Report("install", "error", f)
               /\ UNCHANGED <<storage, mods, modKeys>>
          ELSE /\ storage' = storage \cup {f}
               /\ mods' = RefreshedMods(mods, storage')
               /\ modKeys' = RefreshedKeys(modKeys, storage')
               /\ last' = Report("install", "ok", f)
    /\ UNCHANGED <<catalog, defaultEnabled, gameDirExists, gameDir, profiles,
                   savedMap, pc>>

(***************************************************************************)
(* _uninstall_mod, lines 768-793.  A failing rmtree leaves the directory   *)
(* in storage and skips the refresh.                                       *)
(***************************************************************************)
UninstallMod(f, reply, fails) ==
    /\ pc = "idle"
    /\ f \in DOMAIN mods
    /\ IF reply # "Yes"
          THEN /\ last' = Report("uninstall", "declined", f)
               /\ UNCHANGED <<storage, mods, modKeys>>
          ELSE IF fails
          THEN /\ last' = Report("uninstall", "error", f)
               /\ UNCHANGED <<storage, mods, modKeys>>
          ELSE /\ storage' = storage \ {f}
               /\ mods' = RefreshedMods(mods, storage')
               /\ modKeys' = RefreshedKeys(modKeys, storage')
               /\ last' = Report("uninstall", "ok", f)
    /\ UNCHANGED <<catalog, defaultEnabled, gameDirExists, gameDir, profiles,
                   savedMap, pc>>

\* Lines 770-772 for a folder name self.mods does not hold: the handler
\* returns, and nothing is logged or shown.
UninstallModUnknown(f) ==
    /\ pc = "idle"
    /\ f \notin DOMAIN mods
    /\ last' = Report("uninstall", "silent", f)
    /\ UNCHANGED <<catalog, defaultEnabled, storage, mods, modKeys,
                   gameDirExists, gameDir, profiles, savedMap, pc>>

(***************************************************************************)
(* _check_conflicts, lines 729-766: the "Check Conflicts" entry of a row's *)
(* context menu.                                                           *)
(***************************************************************************)
\* Lines 744-753: the other mods the message lists.
ListedConflicts(ms, folder_name) ==
    {other_folder \in DOMAIN ms \ {folder_name} :
        /\ AffectedFiles(other_folder) # {}
        /\ CommonFiles(folder_name, other_folder) # {}}

CheckConflicts(f) ==
    /\ pc = "idle"
    /\ last' = IF f \notin DOMAIN mods
                  THEN Report("check_conflicts", "not_found", f)
                  ELSE IF AffectedFiles(f) = {}
                  THEN Report("check_conflicts", "no_files", f)
                  ELSE Report("check_conflicts",
                              IF ListedConflicts(mods, f) # {} THEN "found" ELSE "none", f)
                          @@ [listed |-> ListedConflicts(mods, f)]
    /\ UNCHANGED <<catalog, defaultEnabled, storage, mods, modKeys,
                   gameDirExists, gameDir, profiles, savedMap, pc>>

(***************************************************************************)
(* install_mod_folder, lines 444-532.  An archive is [folder, corrupt]:    *)
(* the mod folder it holds, and whether extract_mod_folder raises for it.  *)
(***************************************************************************)
\* One sound archive for every folder name, and a corrupt one.
Archives ==
    {[folder |-> f, corrupt |-> FALSE] : f \in Folders}
        \cup {[folder |-> AllFolders[1], corrupt |-> TRUE]}

\* mod_files: the archives of the chosen folder in sorted order, at most
\* MaxArchives of them.
ArchiveLists == UNION {[1..n -> Archives] : n \in 0..MaxArchives}

\* The counters of lines 485-486, and what the loop did.
BatchStart(store) ==
    [storage |-> store, successful_installs |-> 0, failed_installs |-> <<>>,
     attempted |-> <<>>, installed |-> <<>>, progress |-> <<>>]

\* mod_name = None, line 489.
NoName == ""

\* Storage after an extract_mod_folder that raised: whatever it had written
\* is gone again (spec.md 4.1).
AfterFailedExtract(store, a) == store

\* A cleanup that removes the folder the failed archive holds.
CleanedUpByArchive(store, mod_name, a) == store \ {a.folder}

\* Lines 510-511, for the archive a.
CleanedUp(store, mod_name, a) ==
    IF mod_name # NoName /\ mod_name \in store THEN store \ {mod_name} ELSE store

\* An iteration that reports progress inside the try block.
BatchStepProgressInTry(a, i, b) ==
    IF ExtractFailsIn(b.storage, a.folder, a.corrupt)
        THEN [b EXCEPT !.storage = CleanedUp(AfterFailedExtract(@, a), NoName, a),
                       !.failed_installs = Append(@, a),
                       !.attempted = Append(@, a)]
        ELSE [b EXCEPT !.storage = @ \cup {a.folder},
                       !.successful_installs = @ + 1,
                       !.installed = Append(@, a.folder),
                       !.attempted = Append(@, a),
                       !.progress = Append(@, i)]

\* Lines 489-513 for the archive a, the i-th of the batch.  When
\* extract_mod_folder raises, mod_name still has the value of line 489.
BatchStep(a, i, b) ==
    IF ExtractFailsIn(b.storage, a.folder, a.corrupt)
        THEN [b EXCEPT !.storage = CleanedUp(AfterFailedExtract(@, a), NoName, a),
                       !.failed_installs = Append(@, a),
                       !.attempted = Append(@, a),
                       !.progress = Append(@, i)]
        ELSE [b EXCEPT !.storage = @ \cup {a.folder},
                       !.successful_installs = @ + 1,
                       !.installed = Append(@, a.folder),
                       !.attempted = Append(@, a),
                       !.progress = Append(@, i)]

RECURSIVE BatchLoop(_, _, _)
\* Lines 488-513 from the i-th archive on.
BatchLoop(archives, i, b) ==
    IF i > Len(archives) THEN b
    ELSE CHOOSE r \in {BatchLoop(archives, i + 1, step) :
                          step \in {BatchStep(archives[i], i, b)}} : TRUE

InstallModFolder(archives) ==
    /\ pc = "idle"
    /\ IF Len(archives) = 0
          THEN /\ last' = Report("install_folder", "none", "-")
               /\ UNCHANGED <<storage, mods, modKeys>>
          ELSE LET b == BatchLoop(archives, 1, BatchStart(storage))
                   rescanned == b.successful_installs > 0
               IN  /\ storage' = b.storage
                   /\ mods' = IF rescanned THEN RefreshedMods(mods, storage') ELSE mods
                   /\ modKeys' = IF rescanned THEN RefreshedKeys(modKeys, storage')
                                               ELSE modKeys
                   /\ last' = [op |-> "install_folder", result |-> "ok",
                               target |-> "-", copied |-> <<>>, failed |-> "-",
                               mod_files |-> archives,
                               attempted |-> b.attempted,
                               installed |-> b.installed,
                               successful_installs |-> b.successful_installs,
                               failed_installs |-> b.failed_installs,
                               progress |-> b.progress,
                               rescanned |-> rescanned]
    /\ UNCHANGED <<catalog, defaultEnabled, gameDirExists, gameDir, profiles,
                   savedMap, pc>>

(***************************************************************************)
(* deploy_mods, lines 235-290.  An entry of the game's mod directory is    *)
(* [kind, gen]: kind "dir" or "file"; gen "old" for an entry that was      *)
(* there when the run started clearing, "new" for a folder the run copied  *)
(* in full, "partial" for the folder whose copytree failed midway.         *)
(***************************************************************************)
OldEntry(kind) == [kind |-> kind, gen |-> "old"]

\* A clear that removes directories only.
RemovesDirsOnly(kind) == kind = "dir"

\* Lines 267-270: rmtree for a directory, unlink for anything else.
Removes(kind) == kind = "dir" \/ kind # "dir"

\* A deploy that copies without clearing.
NotCleared(exists, dir) == [e \in DOMAIN dir |-> OldEntry(dir[e].kind)]

\* Lines 265-270 when nothing raises.
ClearedDir(exists, dir) ==
    IF exists
        THEN [e \in {x \in DOMAIN dir : ~Removes(dir[x].kind)} |-> OldEntry(dir[e].kind)]
        ELSE dir

\* What lines 265-270 leave when a removal raises: the entries not reached,
\* and the one that failed.
ClearFailures(dir) ==
    {[e \in keep |-> OldEntry(dir[e].kind)] : keep \in (SUBSET DOMAIN dir) \ {{}}}

\* The enabled_mods list of line 255 (the folder names).
EnabledMods(ms, keys) == EnabledKeys(ms, keys)

\* A copy loop that goes on after a failed copy.
CopyLoopGoesOn(dir, enabledMods, n) ==
    LET names == {enabledMods[i] : i \in 1..Len(enabledMods)}
    IN  [e \in DOMAIN dir \cup names |->
            IF e \in names THEN [kind |-> "dir", gen |-> "new"] ELSE dir[e]]

\* Lines 275-278: the first n mods of enabled_mods copied in full.
RECURSIVE CopyLoop(_, _, _)
CopyLoop(dir, enabledMods, n) ==
    IF n = 0 THEN dir
    ELSE (enabledMods[n] :> [kind |-> "dir", gen |-> "new"])
            @@ CopyLoop(dir, enabledMods, n - 1)

\* A copy loop that numbers the mods from 1.
CopyProgressFromOne(n) == [i \in 1..n |-> i]

\* Lines 275 and 278: enumerate(enabled_mods, 2), and setValue(i) after the
\* copy of each of the first n mods.
CopyProgress(n) == [i \in 1..n |-> i + 1]

\* The progress bar of a run: setMaximum of line 259 and the values of
\* setValue in turn, line 260 first.
Progress(total_mods, values) == [maximum |-> total_mods + 1, progress |-> <<0>> \o values]

\* Lines 237-253 up to the confirmation dialog.
DeployModsBegin ==
    /\ pc = "idle"
    /\ IF ~gameDirExists
          THEN /\ last' = Report("deploy", "error", "-")
               /\ pc' = "idle"
          ELSE /\ last' = Report("deploy", "asking", "-")
               /\ pc' = "confirm"
    /\ UNCHANGED <<catalog, defaultEnabled, storage, mods, modKeys,
                   gameDirExists, gameDir, profiles, savedMap>>

\* A deploy that clears the directory before it asks.
DeployModsDeclinedAfterClear ==
    /\ pc = "confirm"
    /\ pc' = "idle"
    /\ gameDir' = ClearedDir(gameDirExists, gameDir)
    /\ last' = Report("deploy", "declined", "-")
    /\ UNCHANGED <<catalog, defaultEnabled, storage, mods, modKeys,
                   gameDirExists, profiles, savedMap>>

\* The answer "No", lines 252-253.
DeployModsDeclined ==
    /\ pc = "confirm"
    /\ pc' = "idle"
    /\ last' = Report("deploy", "declined", "-")
    /\ UNCHANGED <<catalog, defaultEnabled, storage, mods, modKeys,
                   gameDirExists, gameDir, profiles, savedMap>>

\* The answer "Yes" and a removal that raises, lines 263-270 and 284-287.
DeployModsClearFails ==
    /\ pc = "confirm"
    /\ gameDirExists
    /\ \E left \in ClearFailures(gameDir) : gameDir' = left
    /\ pc' = "idle"
    /\ last' = [Report("deploy", "error", "-") EXCEPT !.failed = "clear"]
                    @@ Progress(Len(EnabledMods(mods, modKeys)), <<>>)
    /\ UNCHANGED <<catalog, defaultEnabled, storage, mods, modKeys,
                   gameDirExists, profiles, savedMap>>

\* The answer "Yes", the clear, and the copy of the first n enabled mods;
\* with n < total_mods the copytree of mod n + 1 raises, having created its
\* destination (partial) or not.  copytree makes the destination with
\* os.makedirs, which creates a missing game_mods_path on the way.
DeployModsCopy(n, partial) ==
    /\ pc = "confirm"
    /\ LET enabled_mods == EnabledMods(mods, modKeys)
           total_mods == Len(enabled_mods)
           cleared == ClearedDir(gameDirExists, gameDir)
           copied == CopyLoop(cleared, enabled_mods, n)
       IN  /\ n \in 0..total_mods
           /\ (n = total_mods) => ~partial
           /\ gameDir' = IF partial
                            THEN (enabled_mods[n + 1] :> [kind |-> "dir", gen |-> "partial"])
                                    @@ copied
                            ELSE copied
           /\ gameDirExists' = (gameDirExists \/ n > 0 \/ partial)
           /\ last' = [Report("deploy", IF n = total_mods THEN "ok" ELSE "error", "-")
                          EXCEPT !.copied = SubSeq(enabled_mods, 1, n),
                                 !.failed = IF n = total_mods THEN "-"
                                            ELSE enabled_mods[n + 1]]
                           @@ Progress(total_mods, <<1>> \o CopyProgress(n))
    /\ pc' = "idle"
    /\ UNCHANGED <<catalog, defaultEnabled, storage, mods, modKeys, profiles,
                   savedMap>>

\* Outside the program: the game's mod directory is removed.  The program
\* reads its existence at lines 238 and 265.
ExternalRemoveGameDir ==
    /\ gameDirExists
    /\ gameDirExists' = FALSE
    /\ gameDir' = EmptyMap
    /\ last' = Report("external", "removed", "-")
    /\ UNCHANGED <<catalog, defaultEnabled, storage, mods, modKeys, profiles,
                   savedMap, pc>>

(***************************************************************************)
(* save_profile and load_profile, lines 534-623.  A profile file holds a   *)
(* JSON object: folder name -> the literal true or false.                  *)
(***************************************************************************)
\* json.dump of a bool.
JsonDump(b) == IF b THEN "true" ELSE "false"

\* A reader that knows Python's literals only.
JsonLoadPythonLiteral(s) == s = "True"

\* json.load of a literal json.dump wrote.
JsonLoad(s) == s = "true"

\* What a profile file holds in place of a literal when the file ends after
\* the colon of its last key.
CutLiteral == ""

\* A parser that accepts whatever the file holds.
JsonAcceptsAnything(data) == TRUE

\* Line 594: json.load returns for a file of JSON literals and raises
\* otherwise.
JsonParses(data) == \A f \in DOMAIN data : data[f] \in {"true", "false"}

\* Lines 548-551.
ProfileData(ms) == [f \in DOMAIN ms |-> JsonDump(ms[f].enabled)]

\* A save that updates the stored object instead of replacing it.
WriteProfileMerging(files, name, data) ==
    IF name \in DOMAIN files
        THEN (name :> (data @@ files[name])) @@ files
        ELSE (name :> data) @@ files

\* Lines 553-555: open(profile_path, 'w') replaces the file.
WriteProfile(files, name, data) == (name :> data) @@ files

SaveProfile(name, ok) ==
    /\ pc = "idle"
    /\ IF ~ok \/ name = ""
          THEN /\ last' = Report("save", "cancelled", name)
               /\ UNCHANGED <<profiles, savedMap>>
          ELSE IF DOMAIN mods = {}
          THEN /\ last' = Report("save", "warning", name)
               /\ UNCHANGED <<profiles, savedMap>>
          ELSE /\ profiles' = WriteProfile(profiles, name, ProfileData(mods))
               /\ savedMap' = (name :> [f \in DOMAIN mods |-> mods[f].enabled]) @@ savedMap
               /\ last' = Report("save", "ok", name)
    /\ UNCHANGED <<catalog, defaultEnabled, storage, mods, modKeys,
                   gameDirExists, gameDir, pc>>

RECURSIVE ApplyProfileLoop(_, _, _, _, _)
\* Lines 601-611 from item i on.  (The singleton binder makes TLC evaluate
\* the toggled registry once.)
ApplyProfileLoop(ms, keys, i, profile_data, pick) ==
    IF i > Len(keys) THEN ms
    ELSE LET folder_name == keys[i]
         IN  IF folder_name \in DOMAIN profile_data
                THEN LET should_be_enabled == JsonLoad(profile_data[folder_name])
                     IN  CHOOSE r \in
                            {ApplyProfileLoop(
                                [toggled EXCEPT ![folder_name].enabled = should_be_enabled],
                                keys, i + 1, profile_data, pick) :
                                toggled \in {IF ms[folder_name].enabled # should_be_enabled
                                                THEN OnModToggle(ms, keys, folder_name,
                                                                 should_be_enabled, pick)
                                                ELSE ms}} : TRUE
                ELSE ApplyProfileLoop(ms, keys, i + 1, profile_data, pick)

\* A load that disables every mod the profile does not name.
ApplyProfileDisablingAbsent(ms, keys, profile_data, pick) ==
    UpdateConflicts(
        [f \in DOMAIN ms |->
            [ms[f] EXCEPT !.enabled = f \in DOMAIN profile_data
                                      /\ JsonLoad(profile_data[f])]],
        keys, pick)

\* Lines 596-614.
ApplyProfile(ms, keys, profile_data, pick) ==
    UpdateConflicts(ApplyProfileLoop(ms, keys, 1, profile_data, pick), keys, pick)

\* The enabled flags line 611 leaves, for the choice of the recompute's picks.
ProfileFlags(ms, profile_data) ==
    [f \in DOMAIN ms |->
        [ms[f] EXCEPT !.enabled = IF f \in DOMAIN profile_data
                                     THEN JsonLoad(profile_data[f])
                                     ELSE ms[f].enabled]]

\* Lines 567-571: no profile file at all.
LoadProfileNone ==
    /\ pc = "idle"
    /\ DOMAIN profiles = {}
    /\ last' = Report("load", "none", "-")
    /\ UNCHANGED <<catalog, defaultEnabled, storage, mods, modKeys,
                   gameDirExists, gameDir, profiles, savedMap, pc>>

\* Lines 573-591: the profile is listed (line 567) and chosen, and its file
\* is gone when line 587 looks for it: it was removed while the selection
\* dialog was open.
LoadProfileMissing(name) ==
    /\ pc = "idle"
    /\ name \in DOMAIN profiles
    /\ profiles' = [n \in DOMAIN profiles \ {name} |-> profiles[n]]
    /\ savedMap' = [n \in DOMAIN savedMap \ {name} |-> savedMap[n]]
    /\ last' = Report("load", "error", name)
    /\ UNCHANGED <<catalog, defaultEnabled, storage, mods, modKeys,
                   gameDirExists, gameDir, pc>>

\* Outside the program: a profile file is cut short in its last literal.
\* The program reads the file at line 594.
ExternalTruncateProfile(name) ==
    /\ name \in DOMAIN profiles
    /\ JsonParses(profiles[name])
    /\ \E k \in DOMAIN profiles[name] :
          /\ \A j \in DOMAIN profiles[name] : SortKey(j) <= SortKey(k)
          /\ profiles' = [profiles EXCEPT ![name][k] = CutLiteral]
    /\ last' = Report("external", "truncated", name)
    /\ UNCHANGED <<catalog, defaultEnabled, storage, mods, modKeys,
                   gameDirExists, gameDir, savedMap, pc>>

LoadProfile(name, ok) ==
    /\ pc = "idle"
    /\ name \in DOMAIN profiles
    /\ IF ~ok
          THEN /\ last' = Report("load", "cancelled", name)
               /\ UNCHANGED mods
          ELSE IF ~JsonParses(profiles[name])
          THEN /\ last' = Report("load", "error", name)
               /\ UNCHANGED mods
          ELSE /\ \E pick \in Picks(ProfileFlags(mods, profiles[name]), modKeys) :
                     mods' = ApplyProfile(mods, modKeys, profiles[name], pick)
               /\ last' = Report("load", "ok", name)
    /\ UNCHANGED <<catalog, defaultEnabled, storage, modKeys, gameDirExists,
                   gameDir, profiles, savedMap, pc>>

(***************************************************************************)
(* The state after __init__, lines 23-140: the directories exist (line 45) *)
(* and the registry holds a first scan of storage (line 140).              *)
(***************************************************************************)
\* The game's mod directory holds a file the program did not put there.
InitialGameDir == StrayFile :> OldEntry("file")

InitRest ==
    /\ defaultEnabled \in BOOLEAN
    /\ storage \in SUBSET Folders
    /\ mods = RefreshedMods(EmptyMap, storage)
    /\ modKeys = RefreshedKeys(<<>>, storage)
    /\ gameDirExists = TRUE
    /\ gameDir = InitialGameDir
    /\ profiles = EmptyMap
    /\ savedMap = EmptyMap
    /\ pc = "idle"
    /\ last = NoInfo

\* Every assignment of manifests to folder names.
Init ==
    /\ catalog \in [Folders -> ManifestIds]
    /\ InitRest

\* One assignment: the folders hold manifests 1, 2, 3, 4, 1, ... in turn.
FixtureCatalog ==
    [f \in Folders |->
        LET i == CHOOSE j \in 1..Len(AllFolders) : AllFolders[j] = f
        IN  ((i - 1) % Len(Manifests)) + 1]

InitFixture ==
    /\ catalog = FixtureCatalog
    /\ InitRest

\* The fixture with an unreadable manifest in the second folder.
RescanCatalog == [FixtureCatalog EXCEPT ![AllFolders[2]] = Unreadable]

InitRescan ==
    /\ catalog = RescanCatalog
    /\ InitRest

ConflictNext ==
    \/ RefreshModList
    \/ \E f \in Folders : ToggleMod(f)
    \/ EnableAllMods
    \/ DisableAllMods

RegistryNext ==
    \/ ConflictNext
    \/ \E f \in Folders, corrupt \in BOOLEAN : InstallMod(f, corrupt)
    \/ \E f \in Folders, reply \in {"Yes", "No"}, fails \in BOOLEAN :
          UninstallMod(f, reply, fails)

DeployNext ==
    \/ DeployModsBegin
    \/ DeployModsDeclined
    \/ DeployModsClearFails
    \/ \E n \in 0..NumMods, partial \in BOOLEAN : DeployModsCopy(n, partial)
    \/ ExternalRemoveGameDir

ProfileNext ==
    \/ \E name \in ProfileNames \cup {""}, ok \in BOOLEAN : SaveProfile(name, ok)
    \/ LoadProfileNone
    \/ \E name \in ProfileNames, ok \in BOOLEAN : LoadProfile(name, ok)
    \/ \E name \in ProfileNames : LoadProfileMissing(name)
    \/ \E name \in ProfileNames : ExternalTruncateProfile(name)

RescanNext ==
    \/ RefreshModList
    \/ \E f \in Folders : ToggleMod(f)
    \/ \E f \in Folders, is_enabled \in BOOLEAN : ToggleModUnknown(f, is_enabled)
    \/ \E f \in Folders, corrupt \in BOOLEAN : InstallMod(f, corrupt)
    \/ \E archives \in ArchiveLists : InstallModFolder(archives)
    \/ \E f \in Folders, reply \in {"Yes", "No"}, fails \in BOOLEAN :
          UninstallMod(f, reply, fails)
    \/ \E f \in Folders : UninstallModUnknown(f)
    \/ \E f \in Folders : CheckConflicts(f)

Next == RegistryNext \/ RescanNext \/ DeployNext \/ ProfileNext

\* The whole program over every assignment of manifests.
Spec == Init /\ [][Next]_vars

\* The rescan and the handlers that change enabled flags, from every content
\* of storage and every assignment of manifests.
SpecConflicts == Init /\ [][ConflictNext]_vars

\* The registry and deployment, over the fixture.
SpecDeploy == InitFixture /\ [][RegistryNext \/ DeployNext]_vars

\* The registry and the profile store, over the fixture.
SpecProfiles == InitFixture /\ [][RegistryNext \/ ProfileNext]_vars

\* Toggles, deployment and the profile store, over the fixture.
DeployProfilesNext ==
    \/ \E f \in Folders : ToggleMod(f)
    \/ DeployNext
    \/ \E name \in ProfileNames, ok \in BOOLEAN : SaveProfile(name, ok)

SpecDeployProfiles == InitFixture /\ [][DeployProfilesNext]_vars

\* The registry with an unreadable mod, handlers run for unknown folder
\* names, and the batch install.
SpecRescan == InitRescan /\ [][RescanNext]_vars

(***************************************************************************)
(* The claims.                                                             *)
(***************************************************************************)
EnabledSet == {f \in DOMAIN mods : mods[f].enabled}

\* The last step ended with the recompute of _update_conflicts.
AfterRecompute ==
    /\ last.op \in {"toggle", "enable_all", "disable_all", "load"}
    /\ last.result = "ok"

CarriesEntryFor(a, b) == DisplayName(b) \in DOMAIN mods[a].conflicts

\* C1: right after a conflict recompute, two distinct enabled mods share an
\* affected file if and only if each carries a conflict entry keyed by the
\* other's display name, whatever the registry holds.
C1_ConflictEntriesIffSharedFile ==
    AfterRecompute =>
        \A a \in EnabledSet, b \in EnabledSet :
            a # b =>
                (CommonFiles(a, b) # {}
                    <=> (CarriesEntryFor(a, b) /\ CarriesEntryFor(b, a)))

\* C2: in every state between operations the conflicts of every mod are
\* what a full recompute yields from the current enabled flags and affected
\* files.
C2_ConflictsAlwaysRecomputed ==
    pc = "idle" =>
        \E pick \in Picks(mods, modKeys) :
            mods = UpdateConflicts(mods, modKeys, pick)

\* C3: the file stored in a conflict entry is the smallest path of the two
\* mods' common affected files.
C3_RepresentativeIsSmallest ==
    AfterRecompute =>
        \A a \in EnabledSet, b \in EnabledSet :
            (a # b /\ CommonFiles(a, b) # {}) =>
                /\ CarriesEntryFor(a, b)
                /\ mods[a].conflicts[DisplayName(b)] = Smallest(CommonFiles(a, b))

\* C4: after one of two enabled mods that share a file is toggled to
\* disabled, neither carries a conflict entry for the other, and with no
\* third enabled mod both have no conflicts at all.
C4_DisablingClearsBothEntries ==
    (last.op = "toggle" /\ last.result = "ok" /\ ~mods[last.target].enabled) =>
        \A a \in EnabledSet :
            CommonFiles(a, last.target) # {} =>
                /\ ~CarriesEntryFor(a, last.target)
                /\ ~CarriesEntryFor(last.target, a)
                /\ EnabledSet = {a} =>
                      /\ mods[a].conflicts = EmptyMap
                      /\ mods[last.target].conflicts = EmptyMap

\* C5: after a deploy that completed, the game's mod directory holds exactly
\* one folder per enabled mod, named by its folder name, each copied by this
\* run, and nothing that was there before.
C5_DeployedExactlyEnabled ==
    (last.op = "deploy" /\ last.result = "ok") =>
        /\ DOMAIN gameDir = EnabledSet
        /\ \A e \in DOMAIN gameDir : gameDir[e] = [kind |-> "dir", gen |-> "new"]
        /\ (EnabledSet # {} => gameDirExists)

C5_Witness ==
    /\ last.op = "deploy" /\ last.result = "ok"
    /\ Cardinality(DOMAIN mods) = 3
    /\ Cardinality(EnabledSet) = 2
    /\ Cardinality(DOMAIN gameDir) = 2

\* C6: when the copy of the k-th enabled mod fails, an error is reported,
\* exactly the k - 1 mods before it were copied and stay, no later mod is
\* copied, and the directory holds them, at most the partial copy of the
\* k-th, and nothing it held before.
C6_CopyFailureLeavesPrefix ==
    (last.op = "deploy" /\ last.failed \in Folders) =>
        LET enabled_mods == EnabledMods(mods, modKeys)
            k == Position(enabled_mods, last.failed)
            before == {enabled_mods[i] : i \in 1..(k - 1)}
        IN  /\ last.result = "error"
            /\ last.failed \in EnabledSet
            /\ last.copied = SubSeq(enabled_mods, 1, k - 1)
            /\ before \subseteq DOMAIN gameDir
            /\ DOMAIN gameDir \subseteq before \cup {last.failed}
            /\ \A e \in before : gameDir[e] = [kind |-> "dir", gen |-> "new"]
            /\ last.failed \in DOMAIN gameDir =>
                  gameDir[last.failed] = [kind |-> "dir", gen |-> "partial"]

C6_Witness ==
    /\ last.op = "deploy" /\ last.result = "error"
    /\ Cardinality(EnabledSet) = 3
    /\ Len(last.copied) = 1
    /\ last.failed \in DOMAIN gameDir

\* C7: a deploy invoked while the game's mod directory is missing reports an
\* error and changes nothing, and no step of a deploy creates the directory.
C7_DeployNeverCreatesGameDir ==
    [][(last'.op = "deploy" /\ ~gameDirExists) =>
            /\ ~gameDirExists'
            /\ gameDir' = gameDir
            /\ mods' = mods /\ modKeys' = modKeys /\ storage' = storage
            /\ (pc = "idle" => last'.result = "error")]_vars

\* C8: a load of a profile reports no error and gives every mod that is both
\* in the mapping the profile was saved from and in the registry the enabled
\* value of that mapping.
C8_ProfileRoundTrip ==
    (last.op = "load" /\ last.result = "ok") =>
        /\ last.target \in DOMAIN savedMap
        /\ \A f \in DOMAIN savedMap[last.target] \cap DOMAIN mods :
              mods[f].enabled = savedMap[last.target][f]

C8_Witness ==
    /\ last.op = "load" /\ last.result = "ok"
    /\ DOMAIN savedMap[last.target] \ DOMAIN mods # {}
    /\ \E f \in DOMAIN savedMap[last.target] \cap DOMAIN mods :
          savedMap[last.target][f] # defaultEnabled

\* C9: a load changes the enabled flag of no mod that is not a key of the
\* profile, and adds no record to the registry and removes none.
C9_LoadTouchesProfileKeysOnly ==
    [][last'.op = "load" =>
            /\ DOMAIN mods' = DOMAIN mods
            /\ modKeys' = modKeys
            /\ \A f \in DOMAIN mods :
                  (last'.result # "ok" \/ f \notin DOMAIN profiles[last'.target])
                      => mods'[f].enabled = mods[f].enabled]_vars

C9_Witness ==
    /\ last.op = "load" /\ last.result = "ok"
    /\ DOMAIN profiles[last.target] \ DOMAIN mods # {}
    /\ \E f \in DOMAIN mods \ DOMAIN profiles[last.target] :
          mods[f].enabled # defaultEnabled

\* The mapping a stored profile parses to.
ParsedProfile(data) == [f \in DOMAIN data |-> JsonLoad(data[f])]

CurrentMap == [f \in DOMAIN mods |-> mods[f].enabled]

EndsCutShort(data) == \E f \in DOMAIN data : data[f] = CutLiteral

\* C11: a load of a chosen profile whose file is gone or does not parse
\* reports an error and leaves every record of the registry, flags and
\* conflicts, as it was.
C11_FailedLoadChangesNothing ==
    [][(/\ last'.op = "load"
        /\ last'.target \in ProfileNames
        /\ last'.result # "cancelled"
        /\ \/ last'.target \notin DOMAIN profiles'
           \/ EndsCutShort(profiles'[last'.target]))
            => /\ last'.result = "error"
               /\ mods' = mods
               /\ modKeys' = modKeys]_vars

C11_Witness ==
    /\ last.op = "load" /\ last.result = "error"
    /\ last.target \in DOMAIN profiles
    /\ EndsCutShort(profiles[last.target])
    /\ \E f \in DOMAIN mods \cap DOMAIN profiles[last.target] :
          /\ profiles[last.target][f] # CutLiteral
          /\ JsonLoad(profiles[last.target][f]) # mods[f].enabled

\* C12: a step of a rescan, an install, an uninstall, a deploy or a save
\* leaves the enabled flag of every mod that stays in the registry as it
\* was.
C12_OnlyTogglesAndLoadsChangeEnabled ==
    [][last'.op \notin {"toggle", "enable_all", "disable_all", "load"} =>
            \A f \in DOMAIN mods \cap DOMAIN mods' :
                mods'[f].enabled = mods[f].enabled]_vars

\* The last step ended with the rescan of refresh_mod_list.
AfterRescan ==
    \/ last.op \in {"init", "refresh"}
    \/ last.op \in {"install", "uninstall"} /\ last.result = "ok"
    \/ last.op = "install_folder" /\ last.result = "ok" /\ last.rescanned

\* The folders of storage whose manifest can be read.
ReadableDirs(dirs) == {f \in dirs : catalog[f] \in ManifestIds}

\* C13: right after a rescan the registry holds exactly the folders of
\* storage whose manifest can be read, each once: an unreadable one is left
\* out, alone.
C13_RescanKeepsExactlyReadable ==
    AfterRescan =>
        /\ DOMAIN mods = ReadableDirs(storage)
        /\ {modKeys[i] : i \in 1..Len(modKeys)} = ReadableDirs(storage)
        /\ Len(modKeys) = Cardinality(ReadableDirs(storage))

C13_Witness ==
    /\ last.op = "refresh"
    /\ \E f \in storage \ DOMAIN mods, g \in DOMAIN mods, h \in DOMAIN mods :
          SortKey(g) < SortKey(f) /\ SortKey(f) < SortKey(h)

\* C14: a rescan that follows a rescan, with storage as it was, yields the
\* same folder names, in the same order, with the same metadata.
C14_RescanIdempotent ==
    [][(AfterRescan /\ last'.op = "refresh" /\ storage' = storage) =>
            /\ DOMAIN mods' = DOMAIN mods
            /\ modKeys' = modKeys
            /\ \A f \in DOMAIN mods' :
                  Manifests[catalog'[f]] = Manifests[catalog[f]]]_vars

C14_Witness ==
    /\ last.op = "refresh"
    /\ Len(modKeys) = NumMods - 1
    /\ storage = Folders

\* C15: a confirmed uninstall that succeeds removes the mod's folder from
\* storage and its record from the registry, and leaves the game's mod
\* directory as it is.
C15_UninstallRemovesFromStorageOnly ==
    [][(last'.op = "uninstall" /\ last'.result = "ok") =>
            /\ last'.target \in DOMAIN mods
            /\ last'.target \notin storage'
            /\ last'.target \notin DOMAIN mods'
            /\ \A i \in 1..Len(modKeys') : modKeys'[i] # last'.target
            /\ gameDir' = gameDir
            /\ gameDirExists' = gameDirExists]_vars

C15_Witness ==
    /\ last.op = "uninstall" /\ last.result = "ok"
    /\ last.target \in DOMAIN gameDir
    /\ gameDir[last.target] = [kind |-> "dir", gen |-> "new"]
    /\ DOMAIN mods # {}

\* C16: a toggle or an uninstall for a folder name the registry does not
\* hold reports an error and changes neither the registry nor storage.
C16_UnknownFolderIsAnError ==
    [][(last'.op \in {"toggle", "uninstall"} /\ last'.target \notin DOMAIN mods) =>
            /\ last'.result = "error"
            /\ mods' = mods /\ modKeys' = modKeys /\ storage' = storage]_vars

\* C17: a batch install attempts every archive once, in order; successes
\* and recorded failures add up to the number of archives; progress is
\* reported after each archive, 1 to n; and the registry is rescanned
\* exactly when an archive was installed.
C17_BatchAttemptsEveryArchive ==
    [][last'.op = "install_folder" =>
            IF last'.result = "none"
                THEN mods' = mods /\ modKeys' = modKeys /\ storage' = storage
                ELSE LET n == Len(last'.mod_files)
                     IN  /\ n > 0
                         /\ last'.attempted = last'.mod_files
                         /\ last'.successful_installs + Len(last'.failed_installs) = n
                         /\ last'.successful_installs = Cardinality(storage' \ storage)
                         /\ last'.progress = [i \in 1..n |-> i]
                         /\ last'.rescanned <=> (last'.successful_installs > 0)
                         /\ IF last'.rescanned
                               THEN DOMAIN mods' = ReadableDirs(storage')
                               ELSE mods' = mods /\ modKeys' = modKeys]_vars

C17_Witness ==
    /\ last.op = "install_folder" /\ last.result = "ok"
    /\ Len(last.mod_files) = MaxArchives
    /\ last.failed_installs = <<last.mod_files[1]>>
    /\ last.rescanned

\* C18: in every state, of two mods of the registry one carries an entry
\* keyed by the other's display name if and only if the other carries one
\* keyed by the first's.
C18_ConflictsSymmetric ==
    \A a \in DOMAIN mods, b \in DOMAIN mods :
        a # b => (CarriesEntryFor(a, b) <=> CarriesEntryFor(b, a))

CopiedEntries(dir) == {e \in DOMAIN dir : dir[e].gen \in {"new", "partial"}}

\* C20: a confirmed deploy run ends, complete or failed; once it has
\* copied anything, nothing the directory held before is left; and a run
\* whose clearing failed has copied nothing.
C20_DeployClearsBeforeCopying ==
    [][(pc = "confirm" /\ last'.op = "deploy" /\ last'.result # "declined") =>
            /\ pc' = "idle"
            /\ last'.result \in {"ok", "error"}
            /\ (last'.result = "ok") <=> (last'.failed = "-")
            /\ CopiedEntries(gameDir') # {} => CopiedEntries(gameDir') = DOMAIN gameDir'
            /\ last'.failed = "clear" =>
                  /\ CopiedEntries(gameDir') = {}
                  /\ DOMAIN gameDir' \subseteq DOMAIN gameDir
                  /\ last'.copied = <<>>]_vars

C20_Witness ==
    /\ last.op = "deploy" /\ last.failed = "clear"
    /\ Cardinality(DOMAIN gameDir) > 1
    /\ EnabledSet # {}

\* C21: in a confirmed deploy of n enabled mods the progress maximum is
\* n + 1; the values reported are 0, then 1 after the clear, then i + 1 after
\* the copy of the i-th mod; they never decrease and end at n + 1 exactly
\* when the deploy succeeds; and the mods are copied in the registry's order.
C21_DeployProgress ==
    [][(pc = "confirm" /\ last'.op = "deploy" /\ last'.result # "declined") =>
            LET n == Cardinality(EnabledSet)
                p == last'.progress
                copied == last'.copied
            IN  /\ last'.maximum = n + 1
                /\ p[1] = 0
                /\ Len(p) = IF last'.failed = "clear" THEN 1 ELSE 2 + Len(copied)
                /\ Len(p) > 1 => p[2] = 1
                /\ \A i \in 1..Len(copied) : p[i + 2] = i + 1
                /\ \A i \in 1..(Len(p) - 1) : p[i] <= p[i + 1]
                /\ (p[Len(p)] = n + 1) <=> (last'.result = "ok")
                /\ copied = SubSeq(EnabledKeys(mods, modKeys), 1, Len(copied))]_vars

C21_Witness ==
    /\ last.op = "deploy" /\ last.result = "ok"
    /\ last.progress = <<0, 1, 2, 3>>
    /\ last.maximum = 3
    /\ Cardinality(DOMAIN mods) = 3

\* C22: right after a conflict recompute the row of every mod shows "Yes"
\* if and only if that mod is enabled and has a conflict entry, also when
\* two mods have the same display name.
C22_IndicatorMatchesConflicts ==
    AfterRecompute =>
        \A m \in DOMAIN mods :
            (mods[m].indicator = "Yes")
                <=> (mods[m].enabled /\ mods[m].conflicts # EmptyMap)

\* x comes before y when both are lower-cased.
LowerBefore(x, y) ==
    \E i \in 1..Len(LowerAscending), j \in 1..Len(LowerAscending) :
        i < j /\ LowerAscending[i] = Lower(x) /\ LowerAscending[j] = Lower(y)

Ascending(seq) ==
    \A i \in 1..Len(seq), j \in 1..Len(seq) : i < j => LowerBefore(seq[i], seq[j])

\* C23: the registry is in ascending order of the lower-cased folder names,
\* and a deploy copies the mods in that order.
C23_RegistryOrderedCaseInsensitively ==
    /\ Ascending(modKeys)
    /\ {modKeys[i] : i \in 1..Len(modKeys)} = DOMAIN mods
    /\ (last.op = "deploy" /\ last.result \in {"ok", "error"}) => Ascending(last.copied)

C23_Witness ==
    /\ last.op = "deploy" /\ last.result = "ok"
    /\ last.copied = <<"mod_a", "Mod_b", "mod_c">>

\* The registry with every flag set to value and no handler run.
AllSetTo(ms, value) == [m \in DOMAIN ms |-> [ms[m] EXCEPT !.enabled = value]]

\* C24: when enable-all (disable-all) returns, every mod is enabled
\* (disabled), the conflicts of every mod are those of a full recompute over
\* these flags, and the registry is what setting the flags without any
\* toggle callback and recomputing once yields.
C24_SetAllIsOneOperation ==
    [][last'.op \in {"enable_all", "disable_all"} =>
            LET value == (last'.op = "enable_all")
            IN  /\ DOMAIN mods' = DOMAIN mods
                /\ modKeys' = modKeys
                /\ \A m \in DOMAIN mods' : mods'[m].enabled = value
                /\ \E pick \in Picks(mods', modKeys) :
                      mods' = UpdateConflicts(mods', modKeys, pick)
                /\ \E pick \in Picks(AllSetTo(mods, value), modKeys) :
                      mods' = UpdateConflicts(AllSetTo(mods, value), modKeys, pick)]_vars

C24_Witness ==
    /\ last.op = "enable_all"
    /\ ~defaultEnabled
    /\ Cardinality(DOMAIN mods) = NumMods
    /\ \A m \in DOMAIN mods : mods[m].enabled /\ mods[m].conflicts # EmptyMap

\* C25: the mods "Check Conflicts" lists for a mod are exactly the other
\* enabled mods that share an affected file with it; a disabled mod is
\* never listed.
C25_CheckListsEnabledModsOnly ==
    (last.op = "check_conflicts" /\ last.result \in {"found", "none"}) =>
        last.listed = {o \in EnabledSet \ {last.target} :
                          CommonFiles(last.target, o) # {}}

Range(seq) == {seq[i] : i \in 1..Len(seq)}

C27_DeployWritesGameDirOnly ==
    [][last'.op = "deploy" =>
            /\ storage' = storage
            /\ mods' = mods
            /\ modKeys' = modKeys
            /\ profiles' = profiles
            /\ last'.result \in {"asking", "declined"} =>
                  gameDir' = gameDir /\ gameDirExists' = gameDirExists]_vars

C27_Witness ==
    /\ last.op = "deploy" /\ last.result = "declined"
    /\ DOMAIN profiles # {}
    /\ \E f \in DOMAIN gameDir : gameDir[f].gen = "new"
    /\ \E f \in DOMAIN mods : mods[f].conflicts # EmptyMap

=============================================================================
